---- MODULE Spec2Model ----
(***************************************************************************)
(* hearthd Python sandbox: the integration runner (runner.py) and the      *)
(* homeassistant shim it hands to plugin code (core.py, config_entries.py, *)
(* helpers/aiohttp_client.py, helpers/update_coordinator.py).              *)
(*                                                                         *)
(* Spec      : the runner process on one channel, with the host and the    *)
(*             plugin as its environment.                                  *)
(* SpecProxy : the ClientSession (network proxy and correlation table)     *)
(*             driven through its own methods.                             *)
(*                                                                         *)
(* Text is a sequence of tokens; the quote character is a token of its own *)
(* so that str.split("'") and the `in` test are computed, not assumed.     *)
(***************************************************************************)
EXTENDS Integers, Sequences, FiniteSets, TLC

\* ------------------------------------------------------------------ bounds
MaxInbound == 3
MaxSetups == 1
MaxCalls == 2
MaxPluginOps == 1
MaxResponses == 3
MaxListeners == 2
MaxRefreshes == 2
HighWater == 3

\* ------------------------------------------------------- program constants
TimeoutGrace == 5
MsPerSecond == 1000

\* ------------------------------------------------------------- environment
Q == "'"
EntryIds == {"e1", "e2"}
Domains == {<<"met">>, <<"zeroconf">>}
DepNames == {<<"pymetno">>, <<"zeroconf">>}
TimerIds == {"weather_ab12"}
Timeouts == {1}
IntervalsMs == {0, 1500}
Platforms == {"weather", "sensor"}
CallIds == 1..MaxCalls
NoMsg == [type |-> "none"]

\* ---------------------------------------------------------------- helpers
RECURSIVE SplitAt(_, _)
\* str.split(sep): the pieces of s between occurrences of the token sep
SplitAt(s, sep) ==
  IF \A i \in DOMAIN s : s[i] # sep
  THEN <<s>>
  ELSE LET i == CHOOSE j \in DOMAIN s : s[j] = sep /\ \A k \in 1..(j-1) : s[k] # sep
       IN <<SubSeq(s, 1, i-1)>> \o SplitAt(SubSeq(s, i+1, Len(s)), sep)

Contains(s, tok) == \E i \in DOMAIN s : s[i] = tok

ModuleName(domain) == <<"homeassistant.components.">> \o domain

\* str(e) of the ModuleNotFoundError the import system raises for `name`
NoModuleMsg(name) == <<"No module named ", Q>> \o name \o <<Q>>

\* ------------------------------------------------------------------ state
VARIABLES
  wire,        \* host -> sandbox lines written by the host, not yet read from the socket
  peerEof,     \* the host has closed its end of the channel
  peerGone,    \* the host's socket is gone: what the sandbox writes can no longer be delivered
  rbuf,        \* lines held by the StreamReader (SocketTransport.reader)
  eofFed,      \* the StreamReader has seen end-of-channel
  sent,        \* sandbox -> host messages, in the order they were written
  hostSent,    \* number of lines the host has written
  setupsSent,  \* number of setup_integration lines among them
  running,     \* IntegrationRunner.running
  pc,          \* position of the task running IntegrationRunner.run
  cur,         \* the message handle_response is working on
  closed,      \* SocketTransport.close has run
  runRaised,   \* run() ended by propagating an exception to main()
  lastError,   \* the exception run() caught and logged, "" if none
  exitCode,    \* exit status of the process, -1 while it runs
  forwarded,   \* ConfigEntry._forwarded_platforms of the entry being set up
  plug,        \* what the plugin entry point has done so far in this setup
  coord,       \* the DataUpdateCoordinator the plugin created
  hassCoordinators, \* hass._coordinators, where the handle has such an attribute
  readyq,      \* tasks the plugin scheduled (ensure_future) that have not run yet, oldest first
  cells,       \* platform_str of each async_forward_entry_setups call, read by its closures
  onUnload,    \* ConfigEntry._on_unload_callbacks of the entry being set up
  listeners,   \* DataUpdateCoordinator._listeners, in registration order
  wbuf,        \* bytes the StreamWriter has taken (writer.write) and the socket has not
  outBytes,    \* bytes the socket has taken, in order: what the host reads
  senders,     \* the coroutines calling send_message, and how far each has got
  nextId,      \* number of request identifiers drawn so far
  pending,     \* ClientSession._pending_requests (its keys)
  fut,         \* the asyncio.Future of each request identifier
  call,        \* the _send_request coroutine of each request identifier
  inTime,      \* history: identifiers answered by the host while still awaited
  respSeen,    \* history: calls of handle_http_response so far, and the last one's
               \* request_id and status, and the state its future was in
  dispatched,  \* history: the requests handle_response was entered for, in order
  refreshLog   \* history: the last async_refresh (see NoRefresh)

hostVars == <<wire, peerEof, peerGone, hostSent, setupsSent>>
loopVars == <<rbuf, eofFed, running, pc, cur, closed, runRaised, lastError, exitCode>>
setupVars == <<forwarded, plug, coord, hassCoordinators, readyq, cells, onUnload>>
proxyVars == <<nextId, pending, fut, call>>
histVars == <<inTime, respSeen, dispatched>>
coordVars == <<listeners, refreshLog>>
wireVars == <<wbuf, outBytes, senders>>
vars == <<wire, peerEof, peerGone, rbuf, eofFed, sent, hostSent, setupsSent, running, pc, cur,
          closed, runRaised, lastError, exitCode, forwarded, plug, coord, hassCoordinators,
          readyq, cells, onUnload, listeners, wbuf, outBytes, senders, nextId,
          pending, fut, call, inTime, respSeen, dispatched, refreshLog>>

NoImport == [kind |-> "none", missing |-> <<>>, msg |-> <<>>, entry |-> FALSE]
\* start: Len(sent) when the handler was entered; imp: what the import did;
\* invoked: async_setup_entry was called; ended: "" while the handler runs,
\* then "returned" or "raised"; ops: calls the entry point has made to the shim;
\* outcome: how the entry point ended ("accepted", "False" or "raised")
NoPlug == [start |-> 0, imp |-> NoImport, invoked |-> FALSE, ended |-> "",
           ops |-> 0, awaiting |-> 0, outcome |-> ""]
\* refreshes: calls of async_refresh; fetches: calls of the update method;
\* first_refresh: how async_config_entry_first_refresh ended; at: Len(sent)
\* when it was called
NoCoord == [exists |-> FALSE, name |-> "", timer_id |-> "", interval_ms |-> 0,
            data |-> 0, last_update_success |-> TRUE, refreshes |-> 0, fetches |-> 0,
            first_refresh |-> "", at |-> 0]
NoFut == [st |-> "none", value |-> NoMsg]
NoCall == [st |-> "none", owner |-> "", timeout |-> 0, remaining |-> 0,
           elapsed |-> 0, why |-> "", result |-> NoMsg]

\* before, start: the stored data and the listener list when the refresh began;
\* fetched: what the update method returned; notified: the listeners called, in
\* order; outcome: "" before any refresh, then "ok" or "UpdateFailed"
NoRefresh == [before |-> 0, start |-> <<>>, fetched |-> 0, notified |-> <<>>,
              outcome |-> ""]

\* The coroutines that send: the reply path of run() and two registration tasks
SenderIds == {"reply", "task1", "task2"}

\* The state when the task running run() is at p
InitAt(p) ==
  /\ wire = <<>> /\ peerEof = FALSE /\ peerGone = FALSE /\ rbuf = <<>> /\ eofFed = FALSE
  /\ sent = <<>> /\ hostSent = 0 /\ setupsSent = 0
  /\ running = TRUE /\ pc = p /\ cur = NoMsg
  /\ closed = FALSE /\ runRaised = FALSE /\ lastError = "" /\ exitCode = -1
  /\ forwarded = <<>> /\ plug = NoPlug /\ coord = NoCoord
  /\ hassCoordinators = {} /\ readyq = <<>> /\ cells = <<>> /\ onUnload = <<>>
  /\ listeners = <<>>
  /\ wbuf = <<>> /\ outBytes = <<>>
  /\ senders = [s \in SenderIds |-> [st |-> "none", next |-> 1]]
  /\ nextId = 0 /\ pending = {}
  /\ fut = [i \in CallIds |-> NoFut]
  /\ call = [i \in CallIds |-> NoCall]
  /\ inTime = {}
  /\ respSeen = [n |-> 0, request_id |-> 0, status |-> 0, was |-> "none"]
  /\ dispatched = <<>>
  /\ refreshLog = NoRefresh

\* main() has connected the channel and built the runner; run() is about to start
Init == InitAt("start")

\* ---------------------------------------------------------------- messages
SetupMsg(d, e) == [type |-> "setup_integration", domain |-> d, entry_id |-> e,
                   config |-> "cfg"]
TriggerMsg(t, e) == [type |-> "trigger_update", timer_id |-> t, entry_id |-> e]
ShutdownMsg == [type |-> "shutdown"]
AckMsg == [type |-> "ack"]
UnloadMsg(e) == [type |-> "unload_integration", entry_id |-> e]
ErrorMsg == [type |-> "error", message |-> "host error"]
UnknownMsg == [type |-> "reload_integration", entry_id |-> "e1"]
\* The type field of a line is what response.get("type") gives.  Three tags
\* stand for lines where it gives no string: an object without a type field,
\* a parseable value that is not an object, and a line json.loads rejects.
NoTypeMsg == [type |-> "<none>"]
NotAnObject == [type |-> "<array>"]
MalformedLine == [type |-> "<unparseable>"]
\* messages that lack a field their branch reads
SetupNoDomain == [type |-> "setup_integration", entry_id |-> "e1", config |-> "cfg"]
TriggerNoTimer == [type |-> "trigger_update", entry_id |-> "e1"]
\* A body as it arrives in an http_response: a list of byte values, text, JSON
\* null, or no body field at all
ListBody(v) == [k |-> "list", v |-> v]
TextBody(v) == [k |-> "str", v |-> v]
NullBody == [k |-> "null", v |-> <<>>]
AbsentBody == [k |-> "absent", v |-> <<>>]
BytesBody(v) == [k |-> "bytes", v |-> v]
HttpResponseMsg(id, status, body) ==
  [type |-> "http_response", request_id |-> id, status |-> status,
   headers |-> "hdrs", body |-> body]

HostMessages ==
  {SetupMsg(d, e) : d \in Domains, e \in EntryIds}
    \cup {TriggerMsg(t, e) : t \in TimerIds, e \in EntryIds}
    \cup {ShutdownMsg, AckMsg}
    \cup {UnloadMsg(e) : e \in EntryIds}
    \cup {ErrorMsg, UnknownMsg, NoTypeMsg, NotAnObject, MalformedLine,
          SetupNoDomain, TriggerNoTimer}
    \cup {HttpResponseMsg(id, 200, ListBody(<<104, 105>>)) : id \in CallIds}

\* the fields a branch of handle_response reads with response[...]
RequiredFields(type) ==
  IF type = "setup_integration" THEN {"domain", "entry_id", "config"}
  ELSE IF type = "unload_integration" THEN {"entry_id"}
  ELSE IF type = "trigger_update" THEN {"timer_id", "entry_id"}
  ELSE {}

\* what the host of a working deployment sends: well-formed messages of the
\* protocol
ProtocolMessages ==
  {m \in HostMessages :
     m.type \in {"setup_integration", "unload_integration", "trigger_update",
                 "shutdown", "ack", "http_response"}
     /\ RequiredFields(m.type) \subseteq DOMAIN m}

IsSetupReply(m) == m.type \in {"setup_complete", "setup_failed"}

RECURSIVE SelectMsgs(_, _)
\* the messages of s whose type is in types, in order
SelectMsgs(s, types) ==
  IF s = <<>> THEN <<>>
  ELSE (IF Head(s).type \in types THEN <<Head(s)>> ELSE <<>>)
         \o SelectMsgs(Tail(s), types)

\* -------------------------------------------------------------------- host
\* The host writes one line.  It answers only http_requests it has received.
HostSend(m) ==
  /\ hostSent < MaxInbound
  /\ ~peerEof
  /\ m.type = "setup_integration" => setupsSent < MaxSetups
  /\ setupsSent' = IF m.type = "setup_integration" THEN setupsSent + 1 ELSE setupsSent
  /\ m.type = "http_response" =>
       \E i \in DOMAIN sent : /\ sent[i].type = "http_request"
                              /\ sent[i].request_id = m.request_id
  /\ wire' = Append(wire, m)
  /\ hostSent' = hostSent + 1
  /\ inTime' = IF m.type = "http_response" /\ fut[m.request_id].st = "pending"
               THEN inTime \cup {m.request_id} ELSE inTime
  /\ UNCHANGED <<peerEof, peerGone, sent, loopVars, setupVars, proxyVars, respSeen, dispatched,
                 coordVars, wireVars>>

\* The host closes its end of the channel.
HostClose ==
  /\ ~peerEof
  /\ peerEof' = TRUE
  /\ UNCHANGED <<wire, peerGone, hostSent, setupsSent, sent, loopVars, setupVars, proxyVars,
                 histVars, coordVars, wireVars>>

\* The host's socket goes away altogether (the host closed it or died): lines
\* it wrote before can still be read, and end-of-channel follows them, but
\* nothing the sandbox writes from now on can be delivered.
HostAbort ==
  /\ ~peerGone
  /\ peerEof' = TRUE
  /\ peerGone' = TRUE
  /\ UNCHANGED <<wire, hostSent, setupsSent, sent, loopVars, setupVars, proxyVars,
                 histVars, coordVars, wireVars>>

\* ------------------------------------------------------- asyncio event loop
\* The task running run() is suspended: in readline() with nothing buffered,
\* or inside the plugin awaiting the future of an outbound call.
MainSuspended ==
  \/ pc = "recv" /\ rbuf = <<>> /\ ~eofFed
  \/ pc = "await_call"

\* Callbacks already scheduled (ensure_future) run before the loop polls I/O
\* and timers.
LoopIdle == MainSuspended /\ readyq = <<>>

\* The socket's read callback feeds what has arrived into the StreamReader.
Feed ==
  /\ LoopIdle
  /\ ~eofFed
  /\ \E eof \in (IF peerEof THEN {TRUE, FALSE} ELSE {FALSE}) :
       /\ wire # <<>> \/ eof
       /\ eofFed' = eof
  /\ rbuf' = rbuf \o wire
  /\ wire' = <<>>
  /\ UNCHANGED <<peerEof, peerGone, hostSent, setupsSent, sent, running, pc, cur, closed,
                 runRaised, lastError, exitCode, setupVars, proxyVars, histVars, coordVars,
                 wireVars>>

\* ------------------------------------------------------------------ runner
\* what main() can find when the process starts
StartupConditions == {"ok", "no_socket_fd", "no_ha_source", "bad_socket_fd"}

\* main() up to runner.run(): a missing HEARTHD_SOCKET_FD or HEARTHD_HA_SOURCE
\* is sys.exit(1); a descriptor that is no number or no open socket raises
\* inside the try, which `except Exception` turns into sys.exit(1)
Startup(cond) ==
  /\ pc = "main"
  /\ IF cond = "ok"
     THEN pc' = "start" /\ UNCHANGED exitCode
     ELSE pc' = "exited" /\ exitCode' = 1
  /\ UNCHANGED <<hostVars, rbuf, eofFed, sent, running, cur, closed, runRaised, lastError,
                 setupVars, proxyVars, histVars, coordVars, wireVars>>

\* send_ready when the host's socket is gone: drain() raises
\* ConnectionResetError; the call is outside the try of run(), so the exception
\* leaves run() and the transport is not closed
ReadyFails ==
  /\ pc = "start"
  /\ peerGone
  /\ pc' = "stopped"
  /\ runRaised' = TRUE
  /\ UNCHANGED <<hostVars, rbuf, eofFed, sent, running, cur, closed, lastError, exitCode,
                 setupVars, proxyVars, histVars, coordVars, wireVars>>

SendReadyOmitted ==
  /\ pc = "start"
  /\ ~peerGone
  /\ pc' = "recv"
  /\ UNCHANGED <<hostVars, rbuf, eofFed, sent, running, cur, closed, runRaised, lastError,
                 exitCode, setupVars, proxyVars, histVars, coordVars, wireVars>>

\* IntegrationRunner.send_ready, called first by run()
SendReady ==
  /\ pc = "start"
  /\ ~peerGone
  /\ sent' = Append(sent, [type |-> "ready"])
  /\ pc' = "recv"
  /\ UNCHANGED <<hostVars, rbuf, eofFed, running, cur, closed, runRaised, lastError, exitCode,
                 setupVars, proxyVars, histVars, coordVars, wireVars>>

ReceivedWhileSuspended(m) ==
  /\ pc \in {"recv", "await_call"}
  /\ rbuf # <<>>
  /\ m = Head(rbuf)
  /\ rbuf' = Tail(rbuf)

\* recv_response returns the next buffered line; handle_response gets it
Received(m) ==
  /\ pc = "recv"
  /\ rbuf # <<>>
  /\ m = Head(rbuf)
  /\ rbuf' = Tail(rbuf)

\* The exception handle_response raises for m before it sends anything: ""
\* for none, AttributeError where response has no get(), KeyError for a
\* missing field.
DispatchError(m) ==
  IF m = NotAnObject THEN "AttributeError"
  ELSE IF ~(RequiredFields(m.type) \subseteq DOMAIN m) THEN "KeyError"
  ELSE ""

\* handle_response, setup_integration branch: enters handle_setup_integration
HandleSetupIntegration ==
  \E m \in HostMessages :
    /\ Received(m)
    /\ m.type = "setup_integration"
    /\ DispatchError(m) = ""
    /\ cur' = m
    /\ pc' = "import"
    /\ plug' = [NoPlug EXCEPT !.start = Len(sent)]
    /\ dispatched' = Append(dispatched, m)
    /\ UNCHANGED <<hostVars, eofFed, sent, running, closed, runRaised, lastError, exitCode,
                   forwarded, coord, hassCoordinators, readyq, cells, onUnload, proxyVars,
                   inTime, respSeen, coordVars, wireVars>>

UpdateCompleteMsgWrongId(timer_id, entry_id) ==
  [type |-> "update_complete", timer_id |-> entry_id, success |-> TRUE]

\* the reply of the trigger_update branch
UpdateCompleteMsg(timer_id, entry_id) ==
  [type |-> "update_complete", timer_id |-> timer_id, success |-> TRUE]

\* handle_response, trigger_update branch
HandleTriggerUpdate ==
  \E m \in HostMessages :
    /\ Received(m)
    /\ m.type = "trigger_update"
    /\ DispatchError(m) = ""
    /\ ~peerGone
    /\ sent' = Append(sent, UpdateCompleteMsg(m.timer_id, m.entry_id))
    /\ dispatched' = Append(dispatched, m)
    /\ UNCHANGED <<hostVars, eofFed, running, pc, cur, closed, runRaised, lastError, exitCode,
                   setupVars, proxyVars, inTime, respSeen, coordVars, wireVars>>

UnloadCompleteMsg(entry_id) == [type |-> "unload_complete", entry_id |-> entry_id]

\* handle_response, unload_integration branch
HandleUnloadIntegration ==
  \E m \in HostMessages :
    /\ Received(m)
    /\ m.type = "unload_integration"
    /\ DispatchError(m) = ""
    /\ ~peerGone
    /\ sent' = Append(sent, UnloadCompleteMsg(m.entry_id))
    /\ dispatched' = Append(dispatched, m)
    /\ UNCHANGED <<hostVars, eofFed, running, pc, cur, closed, runRaised, lastError, exitCode,
                   setupVars, proxyVars, inTime, respSeen, coordVars, wireVars>>

HandleShutdownKeepsReading ==
  \E m \in HostMessages :
    /\ Received(m)
    /\ m.type = "shutdown"
    /\ running' = FALSE
    /\ UNCHANGED <<hostVars, eofFed, sent, pc, cur, closed, runRaised, lastError, exitCode,
                   setupVars, proxyVars, histVars, coordVars, wireVars>>

\* handle_response, shutdown branch; the loop condition then fails and the
\* finally clause of run() closes the transport
HandleShutdown ==
  \E m \in HostMessages :
    /\ Received(m)
    /\ m.type = "shutdown"
    /\ running' = FALSE
    /\ pc' = "stopped"
    /\ closed' = TRUE
    /\ UNCHANGED <<hostVars, eofFed, sent, cur, runRaised, lastError, exitCode, setupVars,
                   proxyVars,
                   histVars, coordVars, wireVars>>

HandleIgnoredFatal ==
  \E m \in HostMessages :
    /\ Received(m)
    /\ m # MalformedLine
    /\ DispatchError(m) = ""
    /\ m.type \notin {"setup_integration", "unload_integration",
                      "trigger_update", "shutdown"}
    /\ IF m.type \in {"ack", "error"}
       THEN UNCHANGED <<pc, closed, lastError>>
       ELSE pc' = "stopped" /\ closed' = TRUE /\ lastError' = "ValueError"
    /\ UNCHANGED <<hostVars, eofFed, sent, running, cur, runRaised, exitCode,
                   setupVars, proxyVars, histVars, coordVars, wireVars>>

\* handle_response: ack, error and the final else branch (every other type,
\* http_response among them) only log
HandleIgnored ==
  \E m \in HostMessages :
    /\ Received(m)
    /\ m # MalformedLine
    /\ DispatchError(m) = ""
    /\ m.type \notin {"setup_integration", "unload_integration",
                      "trigger_update", "shutdown"}
    /\ UNCHANGED <<hostVars, eofFed, sent, running, pc, cur, closed, runRaised, lastError, exitCode,
                   setupVars, proxyVars, histVars, coordVars, wireVars>>

\* run() catches the exception `kind` in `except Exception`, logs it, and its
\* finally clause closes the transport
RunCatches(kind) ==
  /\ pc' = "stopped"
  /\ closed' = TRUE
  /\ lastError' = kind
  /\ UNCHANGED <<hostVars, eofFed, sent, running, cur, runRaised, exitCode, setupVars,
                 proxyVars, histVars, coordVars, wireVars>>

RecvMalformedSkipsLine ==
  /\ Received(MalformedLine)
  /\ UNCHANGED <<hostVars, eofFed, sent, running, pc, cur, closed, runRaised,
                 lastError, exitCode, setupVars, proxyVars, histVars, coordVars, wireVars>>

\* recv_response: json.loads rejects the line
RecvMalformed ==
  /\ Received(MalformedLine)
  /\ RunCatches("JSONDecodeError")

\* handle_response raises before it has sent anything
HandleResponseRaises ==
  \E m \in HostMessages :
    /\ Received(m)
    /\ m # MalformedLine
    /\ DispatchError(m) # ""
    /\ RunCatches(DispatchError(m))

\* handle_response, unload_integration and trigger_update branches when the
\* host's socket is gone: the reply's drain() raises ConnectionResetError, which
\* run() catches and logs; in the finally clause transport.close() awaits
\* wait_closed(), which raises the write error again, and that leaves run()
ReplyFails ==
  \E m \in HostMessages :
    /\ Received(m)
    /\ m.type \in {"unload_integration", "trigger_update"}
    /\ DispatchError(m) = ""
    /\ peerGone
    /\ pc' = "stopped"
    /\ closed' = TRUE
    /\ lastError' = "ConnectionResetError"
    /\ runRaised' = TRUE
    /\ dispatched' = Append(dispatched, m)
    /\ UNCHANGED <<hostVars, eofFed, sent, running, cur, exitCode, setupVars, proxyVars,
                   inTime, respSeen, coordVars, wireVars>>

\* recv_response raises EOFError; run() logs it and closes the transport
RecvEof ==
  /\ pc = "recv"
  /\ rbuf = <<>>
  /\ eofFed
  /\ pc' = "stopped"
  /\ closed' = TRUE
  /\ lastError' = "EOFError"
  /\ UNCHANGED <<hostVars, rbuf, eofFed, sent, running, cur, runRaised, exitCode,
                 setupVars, proxyVars, histVars, coordVars, wireVars>>

\* ------------------------------------------------- handle_setup_integration
\* What importlib.import_module(module_name) can do.  `missing` is the module
\* the import system could not find (ModuleNotFoundError.name).
ImportOutcomes(domain) ==
  {[kind |-> "ok", missing |-> <<>>, msg |-> <<>>, entry |-> b] : b \in BOOLEAN}
    \cup {[kind |-> "ModuleNotFoundError", missing |-> n, msg |-> NoModuleMsg(n),
           entry |-> FALSE] : n \in {ModuleName(domain)} \cup DepNames}
    \cup {[kind |-> "ModuleNotFoundError", missing |-> <<>>,
           msg |-> <<"native library not available">>, entry |-> FALSE]}
    \cup {[kind |-> k, missing |-> <<>>, msg |-> <<"boom">>, entry |-> FALSE] :
            k \in {"ImportError", "Exception", "BaseException"}}

\* Python's class hierarchy, as far as the except clauses look at it
IsModuleNotFoundError(k) == k = "ModuleNotFoundError"
IsImportError(k) == k \in {"ImportError", "ModuleNotFoundError"}
IsException(k) == k \in {"Exception", "ImportError", "ModuleNotFoundError",
                         "TimeoutError", "UpdateFailed", "AttributeError"}

\* error_msg.split("'")[1] if "'" in error_msg else "unknown"
MissingModule(error_msg) ==
  IF Contains(error_msg, Q) THEN SplitAt(error_msg, Q)[2] ELSE <<"unknown">>

IsIntegrationItselfDomainOnly(missing_module, domain) == missing_module = domain

\* missing_module == module_name or missing_module == domain
IsIntegrationItself(missing_module, domain) ==
  missing_module = ModuleName(domain) \/ missing_module = domain

NotFoundDetail(domain) ==
  <<"Integration ", Q>> \o domain \o <<Q, " not found in Home Assistant source">>
MissingDepDetail(domain, missing_module) ==
  <<"Integration ", Q>> \o domain \o <<Q, " requires Python package ", Q>>
    \o missing_module \o <<Q, " which is not installed">>

\* The inner try/except around the import: what the handler does with the
\* outcome o.  act is "continue" (module imported), "reply" (setup_failed sent,
\* return) or "raise" (the exception leaves the inner try).
ClassifyImport(domain, entry_id, o) ==
  IF o.kind = "ok" THEN [act |-> "continue", kind |-> "ok", reply |-> NoMsg]
  ELSE IF IsModuleNotFoundError(o.kind) THEN
    IF Contains(o.msg, "No module named ")
    THEN LET missing_module == MissingModule(o.msg)
             itself == IsIntegrationItself(missing_module, domain)
         IN [act |-> "reply", kind |-> o.kind,
             reply |-> [type |-> "setup_failed", entry_id |-> entry_id,
                        error |-> IF itself THEN NotFoundDetail(domain)
                                  ELSE MissingDepDetail(domain, missing_module),
                        error_type |-> IF itself THEN "integration_not_found"
                                       ELSE "missing_dependency",
                        missing_package |-> missing_module]]
    ELSE [act |-> "raise", kind |-> o.kind, reply |-> NoMsg]
  ELSE IF IsImportError(o.kind) THEN
    [act |-> "reply", kind |-> o.kind,
     reply |-> [type |-> "setup_failed", entry_id |-> entry_id,
                error |-> <<"Failed to import integration ", Q>> \o domain
                            \o <<Q, ": ">> \o o.msg,
                error_type |-> "import_error"]]
  ELSE [act |-> "raise", kind |-> o.kind, reply |-> NoMsg]

InvalidIntegrationReplyUnknown(domain, entry_id) ==
  [type |-> "setup_failed", entry_id |-> entry_id,
   error |-> <<"module has no attribute ", Q, "async_setup_entry", Q>>,
   error_type |-> "unknown"]

InvalidIntegrationReply(domain, entry_id) ==
  [type |-> "setup_failed", entry_id |-> entry_id,
   error |-> <<"Integration ", Q>> \o domain \o <<Q, " has no async_setup_entry function">>,
   error_type |-> "invalid_integration"]
ReturnedFalseReply(domain, entry_id) ==
  [type |-> "setup_failed", entry_id |-> entry_id,
   error |-> <<"Integration ", Q>> \o domain \o <<Q, " async_setup_entry returned False">>,
   error_type |-> "setup_failed"]
SetupCompleteReply(entry_id) ==
  [type |-> "setup_complete", entry_id |-> entry_id, platforms |-> <<>>]
\* the outer `except Exception as e` of handle_setup_integration
UnknownReply(entry_id, msg) ==
  [type |-> "setup_failed", entry_id |-> entry_id, error |-> msg,
   error_type |-> "unknown"]

\* The replies a handler that started at Len(sent) = start has sent so far
SetupReplies(start, log) ==
  SelectMsgs(SubSeq(log, start + 1, Len(log)), {"setup_complete", "setup_failed"})

\* handle_setup_integration returns after sending `reply`; back in run()
SetupReturns(p, reply) ==
  /\ sent' = Append(sent, reply)
  /\ plug' = [p EXCEPT !.ended = "returned"]
  /\ pc' = "recv"
  /\ UNCHANGED <<running, closed, runRaised, lastError, exitCode>>

\* An exception raised inside the handler's outer try: `except Exception`
\* turns it into a reply; any other exception leaves handle_response and
\* run(), whose finally clause closes the transport.
SetupRaises(p, kind, msg) ==
  IF IsException(kind)
  THEN SetupReturns(p, UnknownReply(cur.entry_id, msg))
  ELSE /\ plug' = [p EXCEPT !.ended = "raised"]
       /\ pc' = "stopped"
       /\ closed' = TRUE
       /\ runRaised' = TRUE
       /\ UNCHANGED <<lastError, exitCode>>
       /\ UNCHANGED <<sent, running>>

\* From the import to the call of the plugin's async_setup_entry.
SetupImport ==
  /\ pc = "import"
  /\ \E o \in ImportOutcomes(cur.domain) :
       LET c == ClassifyImport(cur.domain, cur.entry_id, o)
           p == [plug EXCEPT !.imp = o]
       IN
       /\ forwarded' = <<>>
       /\ onUnload' = <<>>
       /\ IF c.act = "reply" THEN SetupReturns(p, c.reply)
          ELSE IF c.act = "raise" THEN SetupRaises(p, o.kind, o.msg)
          ELSE IF ~o.entry
          THEN SetupReturns(p, InvalidIntegrationReply(cur.domain, cur.entry_id))
          ELSE /\ pc' = "plugin"
               /\ plug' = [p EXCEPT !.invoked = TRUE]
               /\ UNCHANGED <<sent, running, closed, runRaised, lastError, exitCode>>
  /\ UNCHANGED <<hostVars, rbuf, eofFed, cur, coord, hassCoordinators, readyq,
                 cells, proxyVars, histVars, coordVars, wireVars>>

\* The plugin's async_setup_entry returns v: "True", "None" or "False".
PluginReturns(v) ==
  /\ pc = "plugin"
  /\ IF v = "False"
     THEN SetupReturns([plug EXCEPT !.outcome = "False"],
                       ReturnedFalseReply(cur.domain, cur.entry_id))
     ELSE SetupReturns([plug EXCEPT !.outcome = "accepted"],
                       SetupCompleteReply(cur.entry_id))
  /\ UNCHANGED <<hostVars, rbuf, eofFed, cur, forwarded, coord, hassCoordinators,
                 readyq, cells, onUnload, proxyVars, histVars, coordVars, wireVars>>

\* The plugin's async_setup_entry raises.
PluginRaises(kind) ==
  /\ pc = "plugin"
  /\ SetupRaises([plug EXCEPT !.outcome = "raised"], kind, <<"plugin error">>)
  /\ UNCHANGED <<hostVars, rbuf, eofFed, cur, forwarded, coord, hassCoordinators,
                 readyq, cells, onUnload, proxyVars, histVars, coordVars, wireVars>>

\* ------------------------------------------- ClientSession (aiohttp_client)
\* int(timeout * 1000)
TimeoutMs(t) == t * MsPerSecond

WaitTimeoutTwiceGrace(t) == t + TimeoutGrace + TimeoutGrace

\* the timeout given to asyncio.wait_for
WaitTimeout(t) == t + TimeoutGrace

HttpRequestMsg(id, t) ==
  [type |-> "http_request", request_id |-> id, method |-> "GET", url |-> "u",
   headers |-> "none", timeout_ms |-> TimeoutMs(t)]

\* _send_request up to its suspension in wait_for.  One table serves every
\* session: identifiers are unique, so the tables of two sessions never share
\* a key.  With the transport closed, drain() raises and the entry stays.
IssueCall(id, t, owner) ==
  /\ id = nextId + 1
  /\ id \in CallIds
  /\ nextId' = id
  /\ pending' = pending \cup {id}
  /\ fut' = [fut EXCEPT ![id] = [st |-> "pending", value |-> NoMsg]]
  /\ sent' = IF closed THEN sent ELSE Append(sent, HttpRequestMsg(id, t))
  /\ call' = [call EXCEPT ![id] =
                [st |-> IF closed THEN "SendFailed" ELSE "waiting",
                 owner |-> owner, timeout |-> t, remaining |-> WaitTimeout(t),
                 elapsed |-> 0, why |-> "", result |-> NoMsg]]

Waiting(id) == call[id].st = "waiting"

\* the timeout of wait_for expires: the awaited future is cancelled
FireTimer(id) ==
  /\ Waiting(id)
  /\ fut[id].st = "pending"
  /\ call[id].remaining = 0
  /\ fut' = [fut EXCEPT ![id].st = "cancelled"]
  /\ call' = [call EXCEPT ![id].why = "timer"]
  /\ UNCHANGED <<nextId, pending>>

\* ClientResponse(status=..., body=..., headers=..., error=...)
ClientResponse(response_data) ==
  [type |-> "ClientResponse", status |-> response_data.status,
   body |-> response_data.body, headers |-> response_data.headers]

\* _send_request after wait_for: the result is returned; asyncio.TimeoutError
\* pops the entry and is re-raised; CancelledError is not an Exception and
\* passes both except clauses.
FinishCall(id) ==
  /\ Waiting(id)
  /\ fut[id].st # "pending"
  /\ IF fut[id].st = "result"
     THEN /\ call' = [call EXCEPT ![id].st = "returned",
                                  ![id].result = ClientResponse(fut[id].value)]
          /\ UNCHANGED pending
     ELSE IF call[id].why = "timer"
     THEN /\ call' = [call EXCEPT ![id].st = "Timeout"]
          /\ pending' = pending \ {id}
     ELSE /\ call' = [call EXCEPT ![id].st = "Cancelled"]
          /\ UNCHANGED pending
  /\ UNCHANGED <<nextId, fut>>

\* No coroutine has work to do and no timer is due: time passes by one second.
CanTick ==
  /\ \E id \in CallIds : Waiting(id)
  /\ \A id \in CallIds : Waiting(id) => fut[id].st = "pending" /\ call[id].remaining > 0

AdvanceTime ==
  /\ call' = [id \in CallIds |->
                IF Waiting(id)
                THEN [call[id] EXCEPT !.remaining = @ - 1, !.elapsed = @ + 1]
                ELSE call[id]]
  /\ UNCHANGED <<nextId, pending, fut>>

\* ------------------------------------------------------ runner-side timers
TimerFire ==
  /\ LoopIdle
  /\ \E id \in CallIds : FireTimer(id)
  /\ UNCHANGED <<hostVars, loopVars, sent, setupVars, histVars, coordVars, wireVars>>

Tick ==
  /\ LoopIdle
  /\ CanTick
  /\ AdvanceTime
  /\ UNCHANGED <<hostVars, loopVars, sent, setupVars, histVars, coordVars, wireVars>>

\* The outbound call awaited by the plugin's entry point ends; whatever it
\* raised is now the plugin's to handle or to let through.
SetupCallEnds ==
  /\ pc = "await_call"
  /\ FinishCall(plug.awaiting)
  /\ pc' = "plugin"
  /\ plug' = [plug EXCEPT !.awaiting = 0]
  /\ UNCHANGED <<hostVars, rbuf, eofFed, running, cur, closed, runRaised, lastError, exitCode, sent,
                 forwarded, coord, hassCoordinators, readyq, cells, onUnload, histVars,
                 coordVars, wireVars>>

\* The outbound call of a task the plugin started ends inside that task.
TaskCallEnds ==
  /\ MainSuspended \/ pc = "stopped"
  /\ \E id \in CallIds : call[id].owner = "task" /\ FinishCall(id)
  /\ UNCHANGED <<hostVars, loopVars, sent, setupVars, histVars, coordVars, wireVars>>

\* ------------------------------------------------------------- the plugin
\* The plugin's entry point awaits session.get(url, timeout=t).
PluginHttpCall(t) ==
  /\ pc = "plugin"
  /\ plug.ops < MaxPluginOps
  /\ IssueCall(nextId + 1, t, "setup")
  /\ pc' = "await_call"
  /\ plug' = [plug EXCEPT !.ops = @ + 1, !.awaiting = nextId + 1]
  /\ UNCHANGED <<hostVars, rbuf, eofFed, running, cur, closed, runRaised, lastError, exitCode,
                 forwarded, coord, hassCoordinators, readyq, cells, onUnload, histVars,
                 coordVars, wireVars>>

\* The plugin's entry point starts a task of its own that will fetch over HTTP.
PluginSpawnsCall(t) ==
  /\ pc = "plugin"
  /\ plug.ops < MaxPluginOps
  /\ nextId + Len(readyq) < MaxCalls
  /\ plug' = [plug EXCEPT !.ops = @ + 1]
  /\ readyq' = Append(readyq, [kind |-> "call", timeout |-> t, cell |-> 0,
                               origin |-> "", entities |-> <<>>])
  /\ UNCHANGED <<hostVars, loopVars, sent, forwarded, coord, hassCoordinators,
                 cells, onUnload, proxyVars, histVars, coordVars, wireVars>>

\* The plugin's entry point calls entry.async_on_unload(func).
PluginOnUnload ==
  /\ pc = "plugin"
  /\ plug.ops < MaxPluginOps
  /\ plug' = [plug EXCEPT !.ops = @ + 1]
  /\ onUnload' = Append(onUnload, "func")
  /\ UNCHANGED <<hostVars, loopVars, sent, forwarded, coord, hassCoordinators,
                 readyq, cells, proxyVars, histVars, coordVars, wireVars>>

\* ------------------------------------------------ config_entries (forward)
Entities == {[uid |-> "u1", has_state |-> TRUE], [uid |-> "", has_state |-> FALSE]}

\* What the setup of one platform passes to async_add_entities; <<>> stands
\* for a platform that cannot be imported or that adds nothing.
EntityLists == {<<>>} \cup {<<e>> : e \in Entities}

ForwardArgs == {<<"weather">>, <<"sensor", "weather">>, <<"weather", "sensor">>}

\* uid = entity.unique_id or _attr_unique_id or 'unknown'
ResolveUid(entity) == IF entity.uid = "" THEN "unknown" ELSE entity.uid

EntityRegisterMsg(platform_str, entity) ==
  [type |-> "entity_register",
   entity_id |-> <<platform_str, ".", ResolveUid(entity)>>,
   name |-> "Unknown", platform |-> platform_str]

\* WeatherEntity.async_send_state_to_rust
StateUpdateMsg(entity) ==
  [type |-> "state_update", entity_id |-> <<"weather", ".", ResolveUid(entity)>>,
   state |-> "unknown"]

RECURSIVE RegisterEntities(_, _)
\* the messages one _register_entities task sends for `entities`, reading
\* platform_str from the enclosing call when it runs
RegisterEntities(platform_str, entities) ==
  IF entities = <<>> THEN <<>>
  ELSE <<EntityRegisterMsg(platform_str, Head(entities))>>
         \o (IF Head(entities).has_state THEN <<StateUpdateMsg(Head(entities))>>
             ELSE <<>>)
         \o RegisterEntities(platform_str, Tail(entities))

RECURSIVE ForwardTasks(_, _, _)
\* the tasks async_add_entities schedules, one per platform that adds entities
ForwardTasks(platforms, adds, cell) ==
  IF platforms = <<>> THEN <<>>
  ELSE (IF Head(adds) = <<>> THEN <<>>
        ELSE <<[kind |-> "reg", timeout |-> 0, cell |-> cell,
                origin |-> Head(platforms), entities |-> Head(adds)]>>)
         \o ForwardTasks(Tail(platforms), Tail(adds), cell)

\* The plugin calls async_forward_entry_setups(hass, entry, platforms); no
\* platform setup suspends, so the loop over the platforms runs to its end.
PluginForwards(platforms, adds) ==
  /\ pc = "plugin"
  /\ plug.ops < MaxPluginOps
  /\ Len(adds) = Len(platforms)
  /\ plug' = [plug EXCEPT !.ops = @ + 1]
  /\ forwarded' = forwarded \o platforms
  /\ cells' = Append(cells, platforms[Len(platforms)])
  /\ readyq' = readyq \o ForwardTasks(platforms, adds, Len(cells) + 1)
  /\ UNCHANGED <<hostVars, loopVars, sent, coord, onUnload, hassCoordinators, proxyVars,
                 histVars, coordVars, wireVars>>

\* ------------------------------------------------------ update_coordinator
\* Attributes of the HomeAssistant object the runner hands to the plugin:
\* those HomeAssistant.__init__ and the class define, and those the runner sets.
HassAttrs == {"socket_path", "config", "data", "states", "bus", "services",
              "config_entries", "loop", "_reader", "_writer", "_send_message",
              "_recv_message", "async_start", "async_stop"}

\* int(update_interval.total_seconds())
IntervalSeconds(ms) == ms \div MsPerSecond

ScheduleUpdateMsg(c) ==
  [type |-> "schedule_update", timer_id |-> c.timer_id, name |-> c.name,
   interval_seconds |-> IntervalSeconds(c.interval_ms)]

\* DataUpdateCoordinator.__init__
NewCoordinator(ms) ==
  [exists |-> TRUE, name |-> "weather", timer_id |-> "weather_ab12",
   interval_ms |-> ms, data |-> 0, last_update_success |-> TRUE,
   refreshes |-> 0, fetches |-> 0, first_refresh |-> "", at |-> 0]

\* async_refresh on c when the fetch succeeds (fetch_ok) or raises
Refreshed(c, fetch_ok) ==
  IF fetch_ok THEN [c EXCEPT !.data = c.data + 1, !.last_update_success = TRUE,
                            !.refreshes = @ + 1, !.fetches = @ + 1]
  ELSE [c EXCEPT !.last_update_success = FALSE, !.refreshes = @ + 1,
                 !.fetches = @ + 1]

FirstRefreshOutcomeIgnoresFailure(ms, fetch_ok, attrs) ==
  IF ms # 0 /\ "_send_message" \in attrs
  THEN (IF "_coordinators" \in attrs THEN "scheduled" ELSE "AttributeError")
  ELSE IF ~fetch_ok THEN "UpdateFailed"
  ELSE "not_scheduled"

\* how async_config_entry_first_refresh ends on a handle with attributes attrs
FirstRefreshOutcome(ms, fetch_ok, attrs) ==
  IF ~fetch_ok THEN "UpdateFailed"
  ELSE IF ms # 0 /\ "_send_message" \in attrs
  THEN (IF "_coordinators" \in attrs THEN "scheduled" ELSE "AttributeError")
  ELSE "not_scheduled"

\* The plugin creates a coordinator (update interval ms, 0 for none) and awaits
\* async_config_entry_first_refresh(); a new coordinator has no listeners yet.
PluginFirstRefresh(ms, fetch_ok) ==
  /\ pc = "plugin"
  /\ plug.ops < MaxPluginOps
  /\ plug' = [plug EXCEPT !.ops = @ + 1]
  /\ LET out == FirstRefreshOutcome(ms, fetch_ok, HassAttrs)
         c == [Refreshed(NewCoordinator(ms), fetch_ok) EXCEPT
                 !.first_refresh = out, !.at = Len(sent)]
     IN /\ coord' = c
        /\ hassCoordinators' = IF out = "scheduled"
                               THEN hassCoordinators \cup {c.timer_id}
                               ELSE hassCoordinators
        /\ sent' = IF out = "scheduled" THEN Append(sent, ScheduleUpdateMsg(c))
                   ELSE sent
  /\ UNCHANGED <<hostVars, loopVars, forwarded, readyq, cells, onUnload, proxyVars, histVars,
                 coordVars, wireVars>>

\* ------------------------------------------------- tasks the plugin started
\* The oldest scheduled task runs while the main task is suspended (also in
\* wait_closed): a registration task sends its messages, a fetching task
\* issues its call.  Writes to a closed transport are dropped.
RunReady ==
  /\ MainSuspended \/ pc = "stopped"
  /\ readyq # <<>>
  /\ readyq' = Tail(readyq)
  /\ LET t == Head(readyq) IN
       IF t.kind = "reg"
       THEN /\ sent' = IF closed THEN sent
                       ELSE sent \o RegisterEntities(cells[t.cell], t.entities)
            /\ UNCHANGED proxyVars
       ELSE IssueCall(nextId + 1, t.timeout, "task")
  /\ UNCHANGED <<hostVars, loopVars, forwarded, plug, coord, hassCoordinators,
                 cells, onUnload, histVars, coordVars, wireVars>>

\* The exit status main() ends with: an exception leaving run() reaches
\* `except Exception` and sys.exit(1) (an exception that is no Exception leaves
\* main() as well and ends the process with a non-zero status); a run() that
\* returns lets main() return
ExitStatus(raised) == IF raised THEN 1 ELSE 0

\* run() has returned or raised; asyncio.run cancels the tasks still waiting.
Exit ==
  /\ pc = "stopped"
  /\ readyq = <<>>
  /\ pc' = "exited"
  /\ exitCode' = ExitStatus(runRaised)
  /\ fut' = [id \in CallIds |-> IF Waiting(id) /\ fut[id].st = "pending"
                                THEN [fut[id] EXCEPT !.st = "cancelled"]
                                ELSE fut[id]]
  /\ call' = [id \in CallIds |-> IF Waiting(id)
                                 THEN [call[id] EXCEPT !.st = "Cancelled"]
                                 ELSE call[id]]
  /\ UNCHANGED <<hostVars, rbuf, eofFed, running, cur, closed, runRaised, lastError, sent,
                 setupVars, nextId, pending, histVars, coordVars, wireVars>>

Next ==
  \/ \E m \in ProtocolMessages : HostSend(m)
  \/ HostClose
  \/ Feed
  \/ SendReady
  \/ HandleSetupIntegration
  \/ HandleTriggerUpdate
  \/ HandleUnloadIntegration
  \/ HandleShutdown
  \/ HandleIgnored
  \/ RecvEof
  \/ SetupImport
  \/ \E v \in {"True", "None", "False"} : PluginReturns(v)
  \/ \E k \in {"Exception", "BaseException"} : PluginRaises(k)
  \/ \E t \in Timeouts : PluginHttpCall(t)
  \/ \E t \in Timeouts : PluginSpawnsCall(t)
  \/ PluginOnUnload
  \/ \E ps \in ForwardArgs : \E adds \in [1..Len(ps) -> EntityLists] :
       PluginForwards(ps, adds)
  \/ \E ms \in IntervalsMs, ok \in BOOLEAN : PluginFirstRefresh(ms, ok)
  \/ SetupCallEnds
  \/ TaskCallEnds
  \/ TimerFire
  \/ Tick
  \/ RunReady
  \/ Exit

Spec == Init /\ [][Next]_vars

\* The dispatch loop under every kind of inbound line, with plugins that
\* return or raise without calling into the shim.
NextDispatch ==
  \/ \E m \in HostMessages : HostSend(m)
  \/ HostClose
  \/ Feed
  \/ SendReady
  \/ HandleSetupIntegration
  \/ HandleTriggerUpdate
  \/ HandleUnloadIntegration
  \/ HandleShutdown
  \/ HandleIgnored
  \/ RecvMalformed
  \/ HandleResponseRaises
  \/ RecvEof
  \/ SetupImport
  \/ \E v \in {"True", "None", "False"} : PluginReturns(v)
  \/ \E k \in {"Exception", "BaseException"} : PluginRaises(k)
  \/ Exit

SpecDispatch == Init /\ [][NextDispatch]_vars

\* The process from main() to its exit, on a channel whose peer may go away;
\* no integration is set up.
MainMessages ==
  {m \in ProtocolMessages : m.type \notin {"setup_integration", "http_response"}}

NextMain ==
  \/ \E cond \in StartupConditions : Startup(cond)
  \/ \E m \in MainMessages : HostSend(m)
  \/ HostClose
  \/ HostAbort
  \/ Feed
  \/ ReadyFails
  \/ SendReady
  \/ HandleTriggerUpdate
  \/ HandleUnloadIntegration
  \/ HandleShutdown
  \/ HandleIgnored
  \/ ReplyFails
  \/ RecvEof
  \/ Exit

SpecMain == InitAt("main") /\ [][NextMain]_vars

\* ----------------------------------- ClientSession driven through its methods
ResponseIds == 0..MaxCalls
Utf8 == [c \in {"h", "i"} |-> IF c = "h" THEN 104 ELSE 105]

\* str.encode()
Encode(text) == [i \in DOMAIN text |-> Utf8[text[i]]]

\* bytes.decode("utf-8", errors="replace")
Decode(bytes) == [i \in DOMAIN bytes |-> IF bytes[i] = 104 THEN "h" ELSE "i"]

\* ClientResponse.read: the body if it is bytes, else self._body.encode(),
\* which text has and None has not
ReadBody(resp) ==
  IF resp.body.k = "bytes" THEN [raises |-> "", value |-> resp.body.v]
  ELSE IF resp.body.k = "str" THEN [raises |-> "", value |-> Encode(resp.body.v)]
  ELSE [raises |-> "AttributeError", value |-> <<>>]

\* ClientResponse.text: the decoded body if it is bytes, else str(self._body)
TextOf(resp) ==
  IF resp.body.k = "bytes" THEN Decode(resp.body.v)
  ELSE IF resp.body.k = "str" THEN resp.body.v
  ELSE <<"None">>

\* body = response_data.get("body", []); a list becomes bytes(body), text is
\* encoded, anything else is left as it is
NormalizeBody(b) ==
  IF b.k \in {"list", "absent"} THEN BytesBody(b.v)
  ELSE IF b.k = "str" THEN BytesBody(Encode(b.v))
  ELSE b

\* What handle_http_response may be called with; request_id 0 stands for a
\* message without a request_id.
ResponseData ==
  {HttpResponseMsg(id, st, b) :
     id \in ResponseIds, st \in {200, 404},
     b \in {ListBody(<<104, 105>>), TextBody(<<"h", "i">>), AbsentBody, NullBody}}

HandleHttpResponseNoPop(response_data) ==
  LET request_id == response_data.request_id IN
  IF request_id # 0 /\ request_id \in pending
  THEN /\ fut' = [fut EXCEPT ![request_id] =
                    [st |-> "result",
                     value |-> [response_data EXCEPT
                                  !.body = NormalizeBody(response_data.body)]]]
       /\ UNCHANGED pending
  ELSE UNCHANGED <<pending, fut>>

HandleHttpResponseOldest(response_data) ==
  LET request_id == response_data.request_id IN
  IF request_id # 0 /\ request_id \in pending
  THEN LET oldest == CHOOSE id \in pending : \A other \in pending : id <= other
       IN /\ pending' = pending \ {oldest}
          /\ fut' = IF fut[oldest].st = "pending"
                    THEN [fut EXCEPT ![oldest] =
                            [st |-> "result",
                             value |-> [response_data EXCEPT
                                          !.body = NormalizeBody(response_data.body)]]]
                    ELSE fut
  ELSE UNCHANGED <<pending, fut>>

\* ClientSession.handle_http_response
HandleHttpResponse(response_data) ==
  LET request_id == response_data.request_id IN
  IF request_id # 0 /\ request_id \in pending
  THEN /\ pending' = pending \ {request_id}
       /\ fut' = IF fut[request_id].st = "pending"
                 THEN [fut EXCEPT ![request_id] =
                         [st |-> "result",
                          value |-> [response_data EXCEPT
                                       !.body = NormalizeBody(response_data.body)]]]
                 ELSE fut
  ELSE UNCHANGED <<pending, fut>>

SessionCloseKeepsTable ==
  /\ fut' = [id \in CallIds |-> IF id \in pending /\ fut[id].st = "pending"
                                THEN [fut[id] EXCEPT !.st = "cancelled"]
                                ELSE fut[id]]
  /\ call' = [id \in CallIds |-> IF id \in pending /\ fut[id].st = "pending"
                                 THEN [call[id] EXCEPT !.why = "close"]
                                 ELSE call[id]]
  /\ UNCHANGED pending

\* ClientSession.close
SessionClose ==
  /\ fut' = [id \in CallIds |-> IF id \in pending /\ fut[id].st = "pending"
                                THEN [fut[id] EXCEPT !.st = "cancelled"]
                                ELSE fut[id]]
  /\ call' = [id \in CallIds |-> IF id \in pending /\ fut[id].st = "pending"
                                 THEN [call[id] EXCEPT !.why = "close"]
                                 ELSE call[id]]
  /\ pending' = {}

\* the task awaiting _send_request is cancelled: wait_for cancels the future
CancelCaller(id) ==
  /\ Waiting(id)
  /\ fut[id].st = "pending"
  /\ fut' = [fut EXCEPT ![id].st = "cancelled"]
  /\ call' = [call EXCEPT ![id].why = "caller"]
  /\ UNCHANGED <<nextId, pending>>

runnerVars == <<hostVars, loopVars, setupVars, inTime, dispatched, coordVars, wireVars>>

ProxyIssue(t) ==
  /\ IssueCall(nextId + 1, t, "caller")
  /\ UNCHANGED <<runnerVars, respSeen>>

ProxyResponse(d) ==
  /\ respSeen.n < MaxResponses
  /\ respSeen' = [n |-> respSeen.n + 1, request_id |-> d.request_id,
                  status |-> d.status,
                  was |-> IF d.request_id \in CallIds THEN fut[d.request_id].st
                          ELSE "none"]
  /\ HandleHttpResponse(d)
  /\ UNCHANGED <<runnerVars, sent, nextId, call>>

ProxyTimerFire ==
  /\ \E id \in CallIds : FireTimer(id)
  /\ UNCHANGED <<runnerVars, sent, respSeen>>

ProxyCallEnds ==
  /\ \E id \in CallIds : FinishCall(id)
  /\ UNCHANGED <<runnerVars, sent, respSeen>>

ProxyTick ==
  /\ CanTick
  /\ AdvanceTime
  /\ UNCHANGED <<runnerVars, sent, respSeen>>

ProxyClose ==
  /\ pending # {}
  /\ SessionClose
  /\ UNCHANGED <<runnerVars, sent, nextId, respSeen>>

ProxyCancel ==
  /\ \E id \in CallIds : CancelCaller(id)
  /\ UNCHANGED <<runnerVars, sent, respSeen>>

NextProxy ==
  \/ \E t \in Timeouts : ProxyIssue(t)
  \/ \E d \in ResponseData : ProxyResponse(d)
  \/ ProxyTimerFire
  \/ ProxyCallEnds
  \/ ProxyTick
  \/ ProxyClose
  \/ ProxyCancel

SpecProxy == Init /\ [][NextProxy]_vars

\* The event loop runs what is runnable: due timers fire, resumed coroutines
\* run, and the clock advances.
SpecProxyLive ==
  /\ SpecProxy
  /\ WF_vars(ProxyTick) /\ WF_vars(ProxyTimerFire) /\ WF_vars(ProxyCallEnds)

\* ------------------------- DataUpdateCoordinator driven through its methods
ListenerIds == {"a", "b", "c"}

\* The callbacks a plugin may register.  When called, a callback does nothing,
\* calls the remove function async_add_listener returned for the callback
\* `target`, registers the new callback "n", or raises.
Callbacks ==
  {[id |-> i, does |-> d, target |-> ""] : i \in ListenerIds, d \in {"nothing", "raise"}}
    \cup {[id |-> i, does |-> "remove", target |-> t] : i \in ListenerIds, t \in ListenerIds}
    \cup {[id |-> i, does |-> "add", target |-> "n"] : i \in ListenerIds}

NewCallback == [id |-> "n", does |-> "nothing", target |-> ""]

Ids(ls) == [i \in DOMAIN ls |-> ls[i].id]
Registered(ls, id) == \E i \in DOMAIN ls : ls[i].id = id

\* list.remove(x): the list without its first element equal to x
ListRemove(ls, id) ==
  LET i == CHOOSE j \in DOMAIN ls : ls[j].id = id /\ \A k \in 1..(j-1) : ls[k].id # id
  IN SubSeq(ls, 1, i-1) \o SubSeq(ls, i+1, Len(ls))

RECURSIVE NotifyListeners(_, _, _)
\* _async_notify_listeners: `for listener in self._listeners` walks the list by
\* position, and the list is the live one the callbacks change.  i is the
\* position to visit next, log the callbacks called so far.
NotifyListeners(ls, i, log) ==
  IF i > Len(ls) THEN [listeners |-> ls, notified |-> log, raised |-> FALSE]
  ELSE LET l == ls[i]
           called == Append(log, l.id)
       IN IF l.does = "raise"
          THEN [listeners |-> ls, notified |-> called, raised |-> TRUE]
          ELSE IF l.does = "remove"
          THEN (IF Registered(ls, l.target)
                THEN NotifyListeners(ListRemove(ls, l.target), i + 1, called)
                ELSE [listeners |-> ls, notified |-> called, raised |-> TRUE])
          ELSE IF l.does = "add"
          THEN NotifyListeners(Append(ls, NewCallback), i + 1, called)
          ELSE NotifyListeners(ls, i + 1, called)

\* async_refresh on c with the listeners ls: the fetch, the store, the
\* notification, and `except Exception` around all three
AsyncRefresh(c, ls, fetch_ok) ==
  LET r == Refreshed(c, fetch_ok)
      n == IF fetch_ok THEN NotifyListeners(ls, 1, <<>>)
           ELSE [listeners |-> ls, notified |-> <<>>, raised |-> FALSE]
      failed == ~fetch_ok \/ n.raised
  IN [coord |-> IF failed THEN [r EXCEPT !.last_update_success = FALSE] ELSE r,
      listeners |-> n.listeners,
      notified |-> n.notified,
      outcome |-> IF failed THEN "UpdateFailed" ELSE "ok"]

aroundCoord == <<hostVars, loopVars, sent, forwarded, plug, hassCoordinators, readyq, cells,
                 onUnload, proxyVars, histVars, wireVars>>

\* DataUpdateCoordinator(hass, logger, name=..., update_interval=...)
CoordNew(ms) ==
  /\ ~coord.exists
  /\ coord' = NewCoordinator(ms)
  /\ UNCHANGED <<aroundCoord, listeners, refreshLog>>

\* async_add_listener(update_callback)
CoordAddListener(l) ==
  /\ coord.exists
  /\ Len(listeners) < MaxListeners
  /\ ~Registered(listeners, l.id)
  /\ listeners' = Append(listeners, l)
  /\ UNCHANGED <<aroundCoord, coord, refreshLog>>

\* the remove function of a registered callback, called outside a refresh
CoordRemoveListener(id) ==
  /\ coord.exists
  /\ Registered(listeners, id)
  /\ listeners' = ListRemove(listeners, id)
  /\ UNCHANGED <<aroundCoord, coord, refreshLog>>

\* The handles a coordinator may be given: the one the runner builds, one
\* that also has the _coordinators table, and one that cannot send
HassHandles ==
  {HassAttrs, HassAttrs \cup {"_coordinators"}, HassAttrs \ {"_send_message"}}

\* async_config_entry_first_refresh on a handle with attributes attrs
CoordFirstRefresh(fetch_ok, attrs) ==
  /\ coord.exists
  /\ coord.first_refresh = ""
  /\ coord.refreshes < MaxRefreshes
  /\ LET r == AsyncRefresh(coord, listeners, fetch_ok)
         out == FirstRefreshOutcome(coord.interval_ms, r.outcome = "ok", attrs)
         c == [r.coord EXCEPT !.first_refresh = out, !.at = Len(sent)]
     IN /\ coord' = c
        /\ listeners' = r.listeners
        /\ refreshLog' = [before |-> coord.data, start |-> Ids(listeners),
                          fetched |-> IF fetch_ok THEN Refreshed(coord, TRUE).data
                                      ELSE coord.data,
                          notified |-> r.notified, outcome |-> r.outcome]
        /\ hassCoordinators' = IF out = "scheduled"
                               THEN hassCoordinators \cup {c.timer_id}
                               ELSE hassCoordinators
        /\ sent' = IF out = "scheduled" THEN Append(sent, ScheduleUpdateMsg(c))
                   ELSE sent
  /\ UNCHANGED <<hostVars, loopVars, forwarded, plug, readyq, cells, onUnload, proxyVars,
                 histVars, wireVars>>

\* async_refresh / async_request_refresh
CoordRefresh(fetch_ok) ==
  /\ coord.exists
  /\ coord.refreshes < MaxRefreshes
  /\ LET r == AsyncRefresh(coord, listeners, fetch_ok)
     IN /\ coord' = r.coord
        /\ listeners' = r.listeners
        /\ refreshLog' = [before |-> coord.data, start |-> Ids(listeners),
                          fetched |-> IF fetch_ok THEN Refreshed(coord, TRUE).data
                                      ELSE coord.data,
                          notified |-> r.notified, outcome |-> r.outcome]
  /\ UNCHANGED aroundCoord

NextCoord ==
  \/ \E ms \in IntervalsMs : CoordNew(ms)
  \/ \E l \in Callbacks : CoordAddListener(l)
  \/ \E id \in ListenerIds \cup {"n"} : CoordRemoveListener(id)
  \/ \E fetch_ok \in BOOLEAN, attrs \in HassHandles : CoordFirstRefresh(fetch_ok, attrs)
  \/ \E fetch_ok \in BOOLEAN : CoordRefresh(fetch_ok)

SpecCoord == Init /\ [][NextCoord]_vars

\* ------------------------------ SocketTransport.send_message under several senders
\* A message on the channel is its JSON text followed by a newline.  The text
\* is two bytes here, so that a unit can be cut between them; json.dumps
\* escapes every newline inside the text.
NL == [b |-> "nl", of |-> NoMsg]
JsonBytes(m) == <<[b |-> "open", of |-> m], [b |-> "close", of |-> m]>>

\* json.dumps(message).encode() + b"\n"
Serialize(m) == JsonBytes(m) \o <<NL>>

\* What each sender sends, in its own order: the reply path answers a
\* trigger_update and an unload_integration; the first task registers an entity
\* with a state, the second one without.
Plan(s) ==
  IF s = "reply" THEN <<UpdateCompleteMsg("weather_ab12", "e1"), UnloadCompleteMsg("e1")>>
  ELSE IF s = "task1"
  THEN RegisterEntities("weather", <<[uid |-> "u1", has_state |-> TRUE]>>)
  ELSE RegisterEntities("sensor", <<[uid |-> "", has_state |-> FALSE]>>)

aroundWire == <<hostVars, loopVars, setupVars, proxyVars, histVars, coordVars>>

\* a sender comes to life: handle_response is entered, or ensure_future has
\* scheduled a registration task
WireStart(s) ==
  /\ senders[s].st = "none"
  /\ senders' = [senders EXCEPT ![s].st = "ready"]
  /\ UNCHANGED <<aroundWire, sent, wbuf, outBytes>>

WireWriteNoNewline(s) ==
  /\ senders[s].st = "ready"
  /\ senders[s].next <= Len(Plan(s))
  /\ LET m == Plan(s)[senders[s].next]
         buf == wbuf \o JsonBytes(m)
     IN /\ wbuf' = buf
        /\ sent' = Append(sent, m)
        /\ senders' = [senders EXCEPT ![s].next = @ + 1,
                                      ![s].st = IF Len(buf) > HighWater THEN "draining"
                                                ELSE "ready"]
  /\ UNCHANGED <<aroundWire, outBytes>>

\* send_message: one writer.write of the whole unit, then drain(), which
\* suspends the sender while the transport holds more than its high-water mark
WireWrite(s) ==
  /\ senders[s].st = "ready"
  /\ senders[s].next <= Len(Plan(s))
  /\ LET m == Plan(s)[senders[s].next]
         buf == wbuf \o Serialize(m)
     IN /\ wbuf' = buf
        /\ sent' = Append(sent, m)
        /\ senders' = [senders EXCEPT ![s].next = @ + 1,
                                      ![s].st = IF Len(buf) > HighWater THEN "draining"
                                                ELSE "ready"]
  /\ UNCHANGED <<aroundWire, outBytes>>

\* the socket takes the first n bytes of the transport's buffer
WireFlush(n) ==
  /\ n \in 1..Len(wbuf)
  /\ outBytes' = outBytes \o SubSeq(wbuf, 1, n)
  /\ wbuf' = SubSeq(wbuf, n + 1, Len(wbuf))
  /\ UNCHANGED <<aroundWire, sent, senders>>

\* drain() returns once the buffer has emptied
WireResume(s) ==
  /\ senders[s].st = "draining"
  /\ wbuf = <<>>
  /\ senders' = [senders EXCEPT ![s].st = "ready"]
  /\ UNCHANGED <<aroundWire, sent, wbuf, outBytes>>

MaxUnitBytes == Len(Serialize(NoMsg)) * (HighWater + 1)

NextWire ==
  \/ \E s \in SenderIds : WireStart(s)
  \/ \E s \in SenderIds : WireWrite(s)
  \/ \E n \in 1..MaxUnitBytes : WireFlush(n)
  \/ \E s \in SenderIds : WireResume(s)

SpecWire == Init /\ [][NextWire]_vars

\* ------------------------------------------------------------------ claims
\* the handler of the last setup_integration has ended
SetupEnded == plug.ended # ""
\* the replies that handler sent
LastReplies == SetupReplies(plug.start, sent)
RequestSent(id) ==
  \E i \in DOMAIN sent : sent[i].type = "http_request" /\ sent[i].request_id = id
RequestOf(id) ==
  sent[CHOOSE i \in DOMAIN sent :
         sent[i].type = "http_request" /\ sent[i].request_id = id]
ResponseQueued(id) ==
  \E i \in DOMAIN (wire \o rbuf) :
    (wire \o rbuf)[i].type = "http_response" /\ (wire \o rbuf)[i].request_id = id
ElapsedMs(id) == call[id].elapsed * MsPerSecond

\* C1: every handled setup_integration gets exactly one reply, setup_complete
\* or setup_failed, with its entry_id, and the handler returns to the loop
\* whatever the plugin module did.
C1_SetupAlwaysAnswered ==
  SetupEnded =>
    /\ plug.ended = "returned"
    /\ Len(LastReplies) = 1
    /\ LastReplies[1].entry_id = cur.entry_id

\* C2: an http_response the host sent for a call that was still awaited is
\* routed to the correlation table: the call is still waiting while the
\* response is in flight, and once the runner has taken the response the
\* future holds it and the call returns its status, headers and body.
C2_ResponseCompletesCall ==
  \A id \in inTime :
    IF ResponseQueued(id) THEN Waiting(id) /\ fut[id].st = "pending"
    ELSE /\ fut[id].st = "result"
         /\ call[id].st \in {"waiting", "returned"}
         /\ call[id].st = "returned" => call[id].result.status = fut[id].value.status

\* a call resolved by a response, by close(), or by its timeout
Resolved(id) ==
  \/ fut[id].st = "result"
  \/ fut[id].st = "cancelled" /\ call[id].why = "close"
  \/ call[id].st = "Timeout"

\* C3: the future of a request is resolved at most once and the outcome a
\* caller got never changes; handling an http_response never touches a call,
\* never adds to the table, and for an identifier that is already resolved
\* changes neither the table nor any future nor any call.
C3_FulfilledAtMostOnce ==
  [][/\ \A id \in CallIds :
          /\ fut[id].st \in {"result", "cancelled"} => fut'[id] = fut[id]
          /\ call[id].st \in {"returned", "Timeout", "Cancelled"} => call'[id] = call[id]
     /\ respSeen'.n # respSeen.n =>
          /\ call' = call
          /\ pending' \subseteq pending
          /\ \A id \in CallIds \ {respSeen'.request_id} :
               fut'[id] = fut[id] /\ (id \in pending' <=> id \in pending)
          /\ (respSeen'.request_id \in CallIds /\ Resolved(respSeen'.request_id))
               => UNCHANGED <<pending, fut, call>>]_vars

\* C3 witness: a response with another status came for an identifier that
\* already held its result, which is unchanged.
C3_Witness ==
  /\ respSeen.n >= 2
  /\ respSeen.request_id \in CallIds
  /\ fut[respSeen.request_id].st = "result"
  /\ fut[respSeen.request_id].value.status # respSeen.status

\* C4 as stated: a call without a response is no longer suspended once the
\* timeout_ms it sent has elapsed.
C4_TimesOutAtT ==
  \A id \in CallIds :
    Waiting(id) /\ RequestSent(id) => ElapsedMs(id) <= RequestOf(id).timeout_ms

\* while a call is suspended no more than timeout_ms plus the 5 s grace has
\* elapsed; one that failed with Timeout did so exactly then, entry removed
WithinGrace ==
  \A id \in CallIds :
    RequestSent(id) =>
      LET limit == RequestOf(id).timeout_ms + TimeoutGrace * MsPerSecond IN
      /\ Waiting(id) => ElapsedMs(id) <= limit
      /\ call[id].st = "Timeout" => ElapsedMs(id) = limit /\ id \notin pending

\* C4 amended: a call without a response is suspended for at most timeout_ms
\* plus the 5 s grace, fails with Timeout exactly then with its entry removed,
\* and no call stays suspended forever.
C4_TimesOutAfterGrace ==
  /\ []WithinGrace
  /\ \A id \in CallIds : Waiting(id) ~> ~Waiting(id)

C4_Witness == \E id \in CallIds : call[id].st = "Timeout"

\* C5: once the channel is closed, every call that was pending has failed with
\* ChannelClosed: none is still waiting and none was merely cancelled.
C5_ClosureFailsPendingCalls ==
  closed /\ ~runRaised =>
    \A id \in CallIds :
      call[id].st \in {"none", "returned", "Timeout", "SendFailed", "ChannelClosed"}

\* C6: an update_complete for the timer id of a coordinator reports a refresh
\* of that coordinator run for the trigger: the coordinator is registered
\* under the timer id, it was refreshed again after its first refresh, and
\* success is that refresh's outcome.
C6_UpdateCompleteReportsRefresh ==
  \A i \in DOMAIN sent :
    (/\ sent[i].type = "update_complete"
     /\ coord.exists
     /\ coord.timer_id = sent[i].timer_id
     /\ i > coord.at)
      => /\ sent[i].timer_id \in hassCoordinators
         /\ coord.refreshes >= 2
         /\ sent[i].success = coord.last_update_success

\* the run() task takes a trigger_update from the reader
TriggerStep ==
  /\ pc = "recv" /\ rbuf # <<>> /\ Head(rbuf).type = "trigger_update"
  /\ rbuf' = Tail(rbuf)

\* C7: handling a trigger_update sends exactly one message, an update_complete
\* with the trigger's timer_id, and leaves the runner in its loop; no
\* update_complete is sent in any other step.
C7_TriggerAnsweredOnce ==
  [][/\ TriggerStep =>
          /\ \E b \in BOOLEAN :
               sent' = Append(sent, [type |-> "update_complete",
                                     timer_id |-> Head(rbuf).timer_id,
                                     success |-> b])
          /\ pc' = "recv" /\ running' /\ ~closed'
     /\ SelectMsgs(sent', {"update_complete"}) # SelectMsgs(sent, {"update_complete"})
          => TriggerStep]_vars

C7_Witness ==
  /\ \E i \in DOMAIN sent : sent[i].type = "update_complete"
  /\ pc = "recv" /\ running

\* C8: a first_refresh whose refresh succeeded on a coordinator with an
\* interval does not fail, has sent exactly one schedule_update with the
\* timer id, the name and the interval in whole seconds, and has recorded the
\* coordinator under its timer id.
C8_FirstRefreshSchedules ==
  (coord.first_refresh # "" /\ coord.last_update_success /\ coord.interval_ms # 0)
    => /\ coord.first_refresh = "scheduled"
       /\ coord.timer_id \in hassCoordinators
       /\ SelectMsgs(SubSeq(sent, coord.at + 1, Len(sent)), {"schedule_update"})
            = <<[type |-> "schedule_update", timer_id |-> coord.timer_id,
                 name |-> coord.name,
                 interval_seconds |-> coord.interval_ms \div MsPerSecond]>>

\* C9: the platforms of a setup_complete are the platforms the plugin
\* forwarded during that setup.
C9_PlatformsAreForwarded ==
  (SetupEnded /\ Len(LastReplies) = 1 /\ LastReplies[1].type = "setup_complete")
    => LastReplies[1].platforms = forwarded

\* the import failed because the module of the domain itself was not found
NotLocated ==
  /\ plug.imp.kind = "ModuleNotFoundError"
  /\ plug.imp.missing = ModuleName(cur.domain)

\* C10: when the module of the domain cannot be located, the one reply is
\* setup_failed with error_type integration_not_found and the entry's id, and
\* the entry point was not called.
C10_NotFoundReply ==
  (SetupEnded /\ NotLocated) =>
    /\ plug.ended = "returned"
    /\ ~plug.invoked
    /\ Len(LastReplies) = 1
    /\ LastReplies[1].type = "setup_failed"
    /\ LastReplies[1].error_type = "integration_not_found"
    /\ LastReplies[1].entry_id = cur.entry_id

C10_Witness == SetupEnded /\ NotLocated /\ Len(LastReplies) = 1

\* the import failed because a module the plugin imports was not found
DependencyMissing ==
  /\ plug.imp.kind = "ModuleNotFoundError"
  /\ plug.imp.missing \in DepNames

\* C11: when the plugin's module exists but a module it imports is not found,
\* the one reply is setup_failed with error_type missing_dependency and
\* missing_package the missing module's name, whatever that name is.
C11_MissingDependencyReply ==
  (SetupEnded /\ DependencyMissing) =>
    /\ Len(LastReplies) = 1
    /\ LastReplies[1].type = "setup_failed"
    /\ LastReplies[1].error_type = "missing_dependency"
    /\ LastReplies[1].missing_package = plug.imp.missing

\* C12: when the import raises anything but module-not-found, the one reply is
\* setup_failed with error_type import_error.
C12_ImportErrorReply ==
  (SetupEnded /\ plug.imp.kind \in {"ImportError", "Exception", "BaseException"}) =>
    /\ Len(LastReplies) = 1
    /\ LastReplies[1].type = "setup_failed"
    /\ LastReplies[1].error_type = "import_error"

\* the module was imported and has no async_setup_entry
NoEntryPoint == plug.imp.kind = "ok" /\ ~plug.imp.entry

\* C13: when the imported module has no entry point, the one reply is
\* setup_failed with error_type invalid_integration and the entry's id, and
\* nothing was run for the entry: the entry point was not called, no call into
\* the shim was made, nothing was forwarded and no unload callback registered.
C13_InvalidIntegrationReply ==
  (SetupEnded /\ NoEntryPoint) =>
    /\ plug.ended = "returned"
    /\ ~plug.invoked /\ plug.ops = 0 /\ plug.outcome = ""
    /\ forwarded = <<>> /\ onUnload = <<>>
    /\ Len(LastReplies) = 1
    /\ LastReplies[1].type = "setup_failed"
    /\ LastReplies[1].error_type = "invalid_integration"
    /\ LastReplies[1].entry_id = cur.entry_id

C13_Witness == SetupEnded /\ NoEntryPoint /\ Len(LastReplies) = 1

\* C14: setup_complete is sent only when the entry point ended accepting; when
\* it returned False the one reply is setup_failed with error_type
\* setup_failed; when it raised the one reply is setup_failed with error_type
\* unknown.
C14_ReplyFollowsEntryPoint ==
  SetupEnded =>
    /\ \A i \in DOMAIN LastReplies :
         LastReplies[i].type = "setup_complete" => plug.outcome = "accepted"
    /\ plug.outcome = "False" =>
         /\ Len(LastReplies) = 1
         /\ LastReplies[1].type = "setup_failed"
         /\ LastReplies[1].error_type = "setup_failed"
    /\ plug.outcome = "raised" =>
         /\ Len(LastReplies) = 1
         /\ LastReplies[1].type = "setup_failed"
         /\ LastReplies[1].error_type = "unknown"

\* C15: once unload_complete has been sent for the entry that was set up, the
\* entry's unload callbacks have been run and dropped and no coordinator of
\* it is recorded under a timer id.
C15_UnloadCleansUp ==
  \A i \in DOMAIN sent :
    (/\ sent[i].type = "unload_complete"
     /\ SetupEnded /\ i > plug.start
     /\ sent[i].entry_id = cur.entry_id)
      => onUnload = <<>> /\ hassCoordinators = {}

\* C16: unload_complete is the reply for an entry that had completed setup and
\* was not unloaded since: before each unload_complete a setup_complete with
\* the same entry_id was sent, with no unload_complete for it in between.
C16_UnloadOnlyFromRunning ==
  \A i \in DOMAIN sent :
    sent[i].type = "unload_complete" =>
      \E j \in 1..(i - 1) :
        /\ sent[j].type = "setup_complete"
        /\ sent[j].entry_id = sent[i].entry_id
        /\ \A k \in (j + 1)..(i - 1) :
             ~(sent[k].type = "unload_complete" /\ sent[k].entry_id = sent[i].entry_id)

\* the run() task takes a shutdown from the reader
ShutdownStep ==
  /\ pc = "recv" /\ rbuf # <<>> /\ Head(rbuf).type = "shutdown"
  /\ rbuf' = Tail(rbuf)

\* C17: handling shutdown clears the run flag, sends nothing, ends the loop
\* and closes the transport; with the flag cleared no line is taken from the
\* reader and nothing is sent any more.
C17_ShutdownStopsLoop ==
  [][/\ ShutdownStep =>
          ~running' /\ pc' = "stopped" /\ closed' /\ sent' = sent
     /\ ~running =>
          /\ rbuf' = rbuf /\ sent' = sent
          /\ ~running' /\ closed' /\ pc' \in {"stopped", "exited"}]_vars

C17_Witness == ~running /\ closed /\ rbuf # <<>> /\ pc = "exited"

\* the run() task takes an ack, an error, a message of an unknown type or a
\* message without a type from the reader
IgnoredStep ==
  /\ pc = "recv" /\ rbuf # <<>>
  /\ Head(rbuf).type \in {"ack", "error", "reload_integration", "<none>"}
  /\ rbuf' = Tail(rbuf)

\* C18: handling an ack, an error, an unknown type or a message without type
\* sends nothing, changes nothing of the runner but the line taken, and leaves
\* the loop running with the transport open.
C18_IgnoredChangesNothing ==
  [][IgnoredStep =>
       /\ UNCHANGED <<sent, running, pc, cur, closed, runRaised, lastError, exitCode,
                      setupVars, proxyVars>>
       /\ running' /\ pc' = "recv" /\ ~closed']_vars

\* C18 witness: the only line the host sent was ignored, and the loop waits
\* for the next one.
C18_Witness ==
  /\ hostSent = 1 /\ setupsSent = 0 /\ wire = <<>> /\ rbuf = <<>>
  /\ sent = <<[type |-> "ready"]>>
  /\ pc = "recv" /\ running /\ ~closed /\ lastError = ""

\* the run() task takes a line that is not parseable from the reader
MalformedStep ==
  /\ pc = "recv" /\ rbuf # <<>> /\ Head(rbuf) = MalformedLine
  /\ rbuf' = Tail(rbuf)

\* C19: taking a malformed line ends the loop and closes the transport
\* without sending anything; once the loop has ended no line is taken from the
\* reader and nothing is sent.
C19_MalformedIsFatal ==
  [][/\ MalformedStep => pc' = "stopped" /\ closed' /\ sent' = sent
     /\ pc \in {"stopped", "exited"} =>
          /\ rbuf' = rbuf /\ sent' = sent
          /\ closed' /\ pc' \in {"stopped", "exited"}]_vars

C19_Witness == lastError = "JSONDecodeError" /\ closed /\ rbuf # <<>>

\* C20: the loop has ended only after a shutdown, an end-of-channel or a
\* malformed line.
C20_OnlyMalformedIsFatal ==
  pc \in {"stopped", "exited"} =>
    \/ ~running
    \/ lastError \in {"EOFError", "JSONDecodeError"}

\* ------------------------------------------------------------------------
\* main() ended before run() wrote anything: a fatal startup condition
StartupFailed == pc = "exited" /\ sent = <<>>

\* the loop of run() ended because the host closed the channel: end-of-channel
\* was read, or a reply could not be written to a socket that is gone
StoppedByPeer ==
  lastError = "EOFError" \/ (peerGone /\ lastError = "ConnectionResetError")

\* C21: the process exits with code 0 when the Runner stopped because of a
\* shutdown message or because the peer closed the channel, and with a
\* non-zero code on every fatal startup condition.
C21_ExitCodes ==
  pc = "exited" =>
    /\ (~running \/ StoppedByPeer) => exitCode = 0
    /\ StartupFailed => exitCode # 0

\* ------------------------------------------------------------------------
\* C22: ready is sent exactly once per run, as the first outbound message and
\* before any inbound line is read; no reply is ever sent before it.
C22_ReadyFirst ==
  /\ sent = <<>> => /\ Len(wire) = hostSent
                    /\ rbuf = <<>>
                    /\ dispatched = <<>>
  /\ sent # <<>> => /\ sent[1].type = "ready"
                    /\ \A i \in 2..Len(sent) : sent[i].type # "ready"

\* a request has been read and answered after ready
C22_Witness ==
  /\ Len(sent) >= 2
  /\ sent[1].type = "ready"
  /\ dispatched # <<>>
  /\ sent[Len(sent)].type \in {"setup_complete", "setup_failed", "unload_complete",
                               "update_complete"}

\* ------------------------------------------------------------------------
ReplyTypes == {"setup_complete", "setup_failed", "unload_complete", "update_complete"}

\* the replies sent so far, in order
Replies == SelectMsgs(sent, ReplyTypes)

\* r is the reply to the request m
Answers(r, m) ==
  IF m.type = "setup_integration" THEN IsSetupReply(r) /\ r.entry_id = m.entry_id
  ELSE IF m.type = "unload_integration"
  THEN r.type = "unload_complete" /\ r.entry_id = m.entry_id
  ELSE r.type = "update_complete" /\ r.timer_id = m.timer_id

\* handle_response has been entered and has not returned
InDispatch == pc \in {"import", "plugin", "await_call"}

\* the i-th reply answers the i-th request, and only the request now in
\* dispatch (or the one whose dispatch ended the run) can be unanswered
RepliesInOrder ==
  /\ Len(Replies) <= Len(dispatched)
  /\ \A i \in 1..Len(Replies) : Answers(Replies[i], dispatched[i])
  /\ Len(dispatched) > Len(Replies) =>
       /\ Len(dispatched) = Len(Replies) + 1
       /\ InDispatch \/ pc \in {"stopped", "exited"}

\* a line leaves the reader's buffer
LineRead == Len(rbuf') < Len(rbuf)

\* C23: inbound messages are handled one at a time in arrival order: no line
\* is read while a dispatch has not returned, also while it is suspended, the
\* line read is the oldest one, and the replies are sent in the order of the
\* requests that caused them.
C23_OneAtATimeInOrder ==
  [][/\ LineRead => /\ ~InDispatch
                    /\ rbuf' = Tail(rbuf)
                    /\ dispatched' # dispatched => dispatched' = Append(dispatched, Head(rbuf))
     /\ RepliesInOrder']_vars

\* a setup whose dispatch was suspended in an outbound call has been answered,
\* and so has a request read after it
C23_Witness ==
  /\ Len(Replies) >= 2
  /\ \E id \in CallIds : call[id].owner = "setup" /\ call[id].st \notin {"none", "waiting"}
  /\ dispatched[1].type = "setup_integration"
  /\ RepliesInOrder

\* ------------------------------------------------------------------------
\* C24: a refresh that ends by raising UpdateFailed leaves the stored data as
\* it was and has notified no listener, whatever made it fail; a refresh that
\* succeeds has stored the snapshot it fetched.
C24_FailedRefreshChangesNothing ==
  /\ refreshLog.outcome = "UpdateFailed" =>
       /\ coord.data = refreshLog.before
       /\ refreshLog.notified = <<>>
  /\ refreshLog.outcome = "ok" => coord.data = refreshLog.fetched

\* the elements of s that are in the set S, in order
Restrict(s, S) == SelectSeq(s, LAMBDA x : x \in S)

\* C25: on a successful refresh every listener registered when the
\* notification starts is notified exactly once, in registration order, also
\* when a listener removes itself or another one, or adds one, meanwhile.
C25_EveryListenerOnceInOrder ==
  refreshLog.outcome = "ok" =>
    Restrict(refreshLog.notified, {refreshLog.start[i] : i \in DOMAIN refreshLog.start})
      = refreshLog.start

\* ------------------------------------------------------------------------
\* close() runs and cancels at least one future
CloseStep == \E id \in CallIds : call[id].why = "" /\ call'[id].why = "close"

\* handle_http_response runs
ResponseStep == respSeen'.n # respSeen.n

\* C26: close() cancels every call that is still pending and empties the
\* correlation table without waiting for any of them (no call ends during
\* close); afterwards an http_response for one of those identifiers changes
\* nothing.
C26_CloseCancelsAll ==
  [][/\ CloseStep =>
          /\ pending' = {}
          /\ \A id \in CallIds :
               /\ fut[id].st = "pending" => fut'[id].st = "cancelled"
               /\ fut[id].st # "pending" => fut'[id] = fut[id]
               /\ call'[id].st = call[id].st
     /\ (ResponseStep /\ respSeen'.request_id \in CallIds
           /\ call[respSeen'.request_id].why = "close")
          => UNCHANGED <<pending, fut, call>>]_vars

\* a response came for a call that close() had cancelled
C26_Witness ==
  /\ respSeen.request_id \in CallIds
  /\ respSeen.was = "cancelled"
  /\ call[respSeen.request_id].why = "close"
  /\ pending = {}

\* C27: with several calls in flight and responses in any order, a call gets
\* the response that carries its own request identifier and never another
\* one's; a response whose identifier matches no pending call changes no
\* pending call.
C27_ResponseReachesItsOwnCall ==
  [][/\ ResponseStep =>
          /\ \A id \in CallIds \ {respSeen'.request_id} : fut'[id] = fut[id]
          /\ respSeen'.request_id \notin pending => UNCHANGED <<pending, fut, call>>
     /\ \A id \in CallIds :
          /\ fut'[id].st = "result" => fut'[id].value.request_id = id
          /\ call'[id].st = "returned" =>
               call'[id].result = ClientResponse(fut'[id].value)]_vars

\* two calls were in flight together and the later one was answered first;
\* both have returned, each with the status sent for it
C27_Witness ==
  /\ \A id \in CallIds : call[id].st = "returned"
  /\ respSeen.request_id = 1
  /\ respSeen.was = "pending"
  /\ respSeen.n = 2
  /\ call[1].result.status # call[2].result.status

\* C28: the correlation table holds exactly the calls still awaiting
\* resolution, at most one per identifier: an entry is removed on the first of
\* response, timeout or teardown, and none stays when the send failed or the
\* waiting caller was cancelled.
C28_TableIsAwaitingCalls ==
  \A id \in CallIds :
    /\ id \in pending => Waiting(id)
    /\ (Waiting(id) /\ fut[id].st = "pending") => id \in pending

\* ------------------------------------------------------------------------
RegistrationTypes == {"entity_register", "state_update"}

\* C29: the entity_register and first state_update messages of the entities a
\* plugin adds during a setup are sent before that setup's setup_complete, so
\* that no registration is outstanding when the reply goes out and none can be
\* lost to a shutdown or end-of-channel that follows.
C29_RegisteredBeforeComplete ==
  /\ \A j \in (plug.start + 1)..Len(sent) :
       sent[j].type = "setup_complete" =>
         \A i \in (j + 1)..Len(sent) : sent[i].type \notin RegistrationTypes
  /\ (plug.ended = "returned" /\ plug.outcome = "accepted") =>
       \A k \in DOMAIN readyq : readyq[k].kind # "reg"

\* a registration task runs and writes its messages
RegistrationStep ==
  /\ readyq # <<>>
  /\ Head(readyq).kind = "reg"
  /\ readyq' = Tail(readyq)
  /\ ~closed

\* the entity_register of `entity` when `platform` passed it to the callback
RegistrationOf(platform, entity) ==
  [type |-> "entity_register",
   entity_id |-> <<platform, ".", IF entity.uid = "" THEN "unknown" ELSE entity.uid>>,
   name |-> "Unknown", platform |-> platform]

\* C30: every entity_register carries, as platform and as prefix of
\* entity_id, the platform whose setup passed the entity to the add-entities
\* callback, also when several platforms are forwarded in one call.
C30_RegisteredUnderOwnPlatform ==
  [][RegistrationStep =>
       LET t == Head(readyq)
           new == SubSeq(sent', Len(sent) + 1, Len(sent'))
       IN SelectMsgs(new, {"entity_register"})
            = [k \in DOMAIN t.entities |-> RegistrationOf(t.origin, t.entities[k])]]_vars

\* ------------------------------------------------------------------------
\* every state_update on the channel follows an entity_register of its entity_id
StateUpdatesRegistered ==
  \A i \in DOMAIN sent :
    sent[i].type = "state_update" =>
      \E j \in 1..(i - 1) : /\ sent[j].type = "entity_register"
                            /\ sent[j].entity_id = sent[i].entity_id

\* in the messages `new` of one registration task, the entity_register of each
\* entity that exposes a state is directly followed by that entity's state_update
StateFollowsRegistration(new, entities) ==
  \A k \in DOMAIN entities :
    entities[k].has_state =>
      \E i \in 1..(Len(new) - 1) :
        /\ new[i].type = "entity_register"
        /\ new[i].entity_id[3] = ResolveUid(entities[k])
        /\ new[i + 1].type = "state_update"
        /\ new[i + 1].entity_id = new[i].entity_id

\* C31: no state_update is sent for an entity_id that was not registered
\* earlier on the channel, and the state_update of an entity that exposes an
\* initial state is the next message for that entity after its entity_register.
C31_RegisterBeforeState ==
  [][/\ StateUpdatesRegistered'
     /\ RegistrationStep =>
          StateFollowsRegistration(SubSeq(sent', Len(sent) + 1, Len(sent')),
                                   Head(readyq).entities)]_vars

\* ------------------------------------------------------------------------
\* async_refresh runs
RefreshStep == coord'.refreshes # coord.refreshes

Notified(log, id) == \E i \in DOMAIN log : log[i] = id

\* C32: a refresh invokes no listener that was removed before it notified;
\* removing a listener during a notification never makes a listener that
\* stays registered miss that notification; and a failed refresh invokes no
\* listener.
C32_CopyOnNotify ==
  [][RefreshStep =>
       /\ \A id \in ListenerIds :
            Notified(refreshLog'.notified, id) => Registered(listeners, id)
       /\ refreshLog'.outcome = "ok" =>
            \A id \in ListenerIds :
              (Registered(listeners, id) /\ Registered(listeners', id))
                => Notified(refreshLog'.notified, id)
       /\ refreshLog'.outcome = "UpdateFailed" => refreshLog'.notified = <<>>]_vars

\* ------------------------------------------------------------------------
\* the schedule_update messages sent since first_refresh was called
Scheduled == SelectMsgs(SubSeq(sent, coord.at + 1, Len(sent)), {"schedule_update"})

\* C33: a first_refresh whose refresh failed has failed with UpdateFailed, has
\* sent no schedule_update and has recorded no timer registration; none is
\* sent either when no interval is configured; and every refresh calls the
\* fetch operation exactly once.
C33_FailedFirstRefreshSchedulesNothing ==
  /\ (coord.first_refresh # "" /\ refreshLog.outcome = "UpdateFailed"
        /\ coord.refreshes = 1)
       => /\ coord.first_refresh = "UpdateFailed"
          /\ Scheduled = <<>>
          /\ coord.timer_id \notin hassCoordinators
  /\ (coord.first_refresh # "" /\ coord.interval_ms = 0) => Scheduled = <<>>
  /\ coord.fetches = coord.refreshes

\* the first refresh of a coordinator with an interval has failed
C33_Witness ==
  /\ coord.first_refresh = "UpdateFailed"
  /\ coord.interval_ms # 0
  /\ coord.refreshes = 1
  /\ coord.fetches = 1
  /\ ~coord.last_update_success

\* ------------------------------------------------------------------------
\* C34: the response a fulfilled call returns holds the body as bytes, however
\* the body arrived (list of byte values, text, absent or null), so that
\* read() returns those bytes and text() their decoding without failing;
\* status and headers are the ones of the http_response.
C34_BodyIsBytes ==
  \A id \in CallIds :
    call[id].st = "returned" =>
      LET r == call[id].result IN
      /\ r.body.k = "bytes"
      /\ ReadBody(r) = [raises |-> "", value |-> r.body.v]
      /\ TextOf(r) = Decode(r.body.v)
      /\ r.status = fut[id].value.status
      /\ r.headers = fut[id].value.headers

\* ------------------------------------------------------------------------
\* the newline-terminated units the host has read, and the bytes after the
\* last newline
Pieces == SplitAt(outBytes, NL)
Units == SubSeq(Pieces, 1, Len(Pieces) - 1)
Remainder == Pieces[Len(Pieces)]

\* the message a unit holds, NoMsg if the unit is not one whole message
ParseUnit(u) ==
  IF Len(u) = 2 /\ u = JsonBytes(u[1].of) THEN u[1].of ELSE NoMsg

HostRead == [i \in DOMAIN Units |-> ParseUnit(Units[i])]

InPlan(s, m) == \E k \in DOMAIN Plan(s) : Plan(s)[k] = m

\* the messages of sender s among those the host has read, in order
HostReadFrom(s) == SelectSeq(HostRead, LAMBDA m : InPlan(s, m))

\* C35: every send puts one whole message, terminated by one newline, on the
\* channel: with several senders active the units the host reads are whole
\* messages, never cut by the bytes of another one, and the messages of each
\* sender arrive in the order it sent them.
C35_UnitsNeverInterleave ==
  /\ Len(Units) <= Len(sent)
  /\ \A i \in DOMAIN Units : HostRead[i] = sent[i]
  /\ Remainder # <<>> =>
       /\ Len(Units) < Len(sent)
       /\ Len(Remainder) <= Len(JsonBytes(sent[Len(Units) + 1]))
       /\ Remainder = SubSeq(JsonBytes(sent[Len(Units) + 1]), 1, Len(Remainder))
  /\ \A s \in SenderIds : HostReadFrom(s) = SubSeq(Plan(s), 1, Len(HostReadFrom(s)))

\* the host has read a message of another sender between the two messages of
\* the first task, and a sender is suspended in drain()
C35_Witness ==
  /\ \E i, j, k \in DOMAIN HostRead :
       /\ i < j /\ j < k
       /\ HostRead[i] = Plan("task1")[1]
       /\ ~InPlan("task1", HostRead[j])
       /\ HostRead[k] = Plan("task1")[2]
  /\ \E s \in SenderIds : senders[s].st = "draining"
  /\ Remainder # <<>>
====
